---- MODULE Spec2Model ----
(***************************************************************************)
(* DriveSight dashboard client: the socket manager (connect, on, off,     *)
(* _notify), the alert panel (fetchAlerts, _prependAlert), the map views   *)
(* (updateHeatmap, addIncidentMarkers) and the application controller      *)
(* (initDashboard, load*, refreshAll), as one state machine.  Every        *)
(* JavaScript task (a socket event callback, a fetch continuation, a timer *)
(* tick, a user action) is one atomic action: the page is single-threaded. *)
(***************************************************************************)
EXTENDS Integers, Sequences, FiniteSets, TLC

\* ---------------------------------------------------------------- bounds
MaxPush       == 3   \* push frames delivered in a run
MaxPulls      == 3   \* pulls issued per domain in a run
MaxConnects   == 1   \* calls of connect() by outside callers in a run
MaxConnEvents == 2   \* transport connect events in a run
MaxExt        == 2   \* on() registrations made by callers outside the repository
SeqPushes     == 32  \* length of the sequential push scenario
MaxRetries    == 21  \* failed reconnection attempts of one transport in a run
MaxRefresh    == 1   \* runs of refreshAll in the refresh scenario

\* ------------------------------------------------------ program constants
MaxAlerts        == 30   \* alerts.js: "Keep max 30"
DefaultIntensity == 5    \* heatmap.js: point.intensity || 0.5, in tenths
DefaultHours     == 24   \* getSelectedHours: no selector -> 24

\* ------------------------------------------------------------ value sets
Kinds == {"new_incident", "alert_update", "heatmap_update", "stats_update",
          "connection_change"}
PushKinds == Kinds \ {"connection_change"}
Domains == {"alerts", "heatmap", "incidents", "stats", "cameras"}
Windows == {6, 24}

\* The repository registers the callbacks alerts_ni, alerts_au (alerts.js init)
\* and app_hm, app_st, app_ni (initDashboard); these are callbacks that callers
\* outside the repository register through on().
ExtHandlers == {"extA", "extB"}

Alert(i) == [id |-> i, created_at |-> i]
Incident(i) == [id |-> i]
Point(i, w) == [lat |-> i, lng |-> i, intensity |-> w]

\* A payload that is absent (socket.io delivered the event without data).
Undefined == [undefined |-> TRUE]
IsUndefined(data) == "undefined" \in DOMAIN data
Has(data, f) == f \in DOMAIN data

\* Text shown by an element nobody has written yet.
Placeholder == 0 - 1

Min(a, b) == IF a < b THEN a ELSE b

\* Array.prototype.slice(0, n)
Slice(s, n) == SubSeq(s, 1, Min(n, Len(s)))

\* ------------------------------------------------------------- variables
VARIABLES
  sockets,      \* the transports opened by connect(), each with its status
  attempts,     \* per transport: reconnection attempts failed in a row
  listeners,    \* socket manager: event kind -> registered callbacks, in order
  alerts,       \* alert panel: the alerts array
  alertsError,  \* alert panel: the container shows the fetch error text
  heatLayer,    \* map: TRUE once the heat layer exists
  heatPoints,   \* map: the heat layer's points
  markers,      \* map: the incident markers of the marker layer
  cameras,      \* camera list: the roster
  filteredCameras, \* camera list: the cameras the list shows
  dom,          \* the dashboard counters' text
  charts,       \* the three charts: created or not, and the series each shows
  hours,        \* value of the time range selector
  dashboardInitialized,
  observing,    \* TRUE while dashboardObserver observes the dashboard section
  inits,        \* position of every started initDashboard()
  timers,       \* number of refresh intervals installed
  pulls,        \* fetches in flight
  issued,       \* domain -> number of pulls issued so far
  applied,      \* domain -> issue number of the pull response applied last
  newest,       \* domain -> highest issue number of a response applied so far
  refreshes,    \* the runs of refreshAll: loaders pending and failed, and state
  nPush,        \* push frames delivered so far
  nConn,        \* transport connect events so far
  nExt,         \* outside on() calls so far
  effects,      \* what the task that ran last emitted and dispatched, in order
  escaped       \* TRUE when an exception left the task that ran last

sockVars == <<sockets, attempts, nConn>>
viewVars == <<alerts, alertsError, heatLayer, heatPoints, markers, cameras,
             filteredCameras, dom, charts>>
pullVars == <<pulls, issued, applied, newest, refreshes>>
initVars == <<dashboardInitialized, observing, inits, timers>>
appVars  == <<hours, initVars>>
logVars  == <<effects, escaped>>
vars == <<sockVars, listeners, viewVars, pullVars, appVars, nPush, nExt, logVars>>

\* The socket variable of the manager: the transport opened last (0: null).
socket == Len(sockets)

\* The marker layer is created together with the heat layer (DriveSightMap.init).
markerLayer == heatLayer

\* The state a callback can change, threaded through the callbacks of one task.
Mem == [alerts |-> alerts, alertsError |-> alertsError, heatPoints |-> heatPoints,
        markers |-> markers, cameras |-> cameras,
        filteredCameras |-> filteredCameras, dom |-> dom, charts |-> charts,
        hours |-> hours, pulls |-> pulls, issued |-> issued,
        listeners |-> listeners]

\* getSelectedHours that always answers the default.
getSelectedHoursDefault(m) == DefaultHours

\* getSelectedHours: parseInt(select.value)
getSelectedHours(m) == m.hours

\* ------------------------------------------------------------ alert panel

\* alerts.js _render: the badge and the dashboard counter show alerts.length and
\* the container shows the list (or "all clear"), replacing an error text.
_render(m) ==
  [m EXCEPT !.dom.active_alerts = Len(m.alerts), !.alertsError = FALSE]

\* alerts.js _renderError: only the container's text changes.
_renderError(m) == [m EXCEPT !.alertsError = TRUE]

\* _prependAlert without its slice(0, 30).
_prependAlertNoTrim(m, alert) == _render([m EXCEPT !.alerts = <<alert>> \o @])

\* _prependAlert with push in place of unshift.
_prependAlertAppends(m, alert) ==
  _render([m EXCEPT !.alerts = Slice(Append(@, alert), MaxAlerts)])

\* alerts.js _prependAlert: unshift, then keep the first 30.
_prependAlert(m, alert) ==
  LET unshifted == <<alert>> \o m.alerts
      kept == IF Len(unshifted) > MaxAlerts THEN Slice(unshifted, MaxAlerts)
              ELSE unshifted
  IN _render([m EXCEPT !.alerts = kept])

\* A fetch is issued: it is in flight until its response (or failure) arrives.
\* by = 0 for a pull nobody awaits, i > 0 for one that inits[i] awaits;
\* ref = r > 0 for a pull whose loader the r-th refreshAll awaits.
Fetch(m, d, by) ==
  [m EXCEPT !.issued[d] = @ + 1,
            !.pulls = @ \cup {[dom |-> d, seq |-> m.issued[d] + 1,
                               hours |-> IF d \in {"heatmap", "incidents"}
                                         THEN getSelectedHours(m) ELSE 0,
                               by |-> by, ref |-> 0]}]

\* alerts.js fetchAlerts, up to its first await.
fetchAlerts(m) == Fetch(m, "alerts", 0)

\* fetchAlerts that puts the snapshot in front of the alerts it already has.
fetchAlertsDoneMerges(m, resp) ==
  IF resp.ok
  THEN _render([m EXCEPT !.alerts = (IF Has(resp.body, "alerts")
                                      THEN resp.body.alerts ELSE <<>>) \o @])
  ELSE _renderError(m)

\* alerts.js fetchAlerts, after the awaits: data.alerts || [] replaces the array;
\* a rejected fetch or an unparsable body is caught and rendered as an error.
fetchAlertsDone(m, resp) ==
  IF resp.ok
  THEN _render([m EXCEPT !.alerts = IF Has(resp.body, "alerts")
                                     THEN resp.body.alerts ELSE <<>>])
  ELSE _renderError(m)

\* -------------------------------------------------------------------- map

\* heatmap.js updateHeatmap: point.intensity || 0.5 (a missing and a zero
\* intensity are both falsy), then setLatLngs replaces the layer's points.
Normalise(point) ==
  [lat |-> point.lat, lng |-> point.lng,
   intensity |-> IF Has(point, "intensity") /\ point.intensity # 0
                 THEN point.intensity ELSE DefaultIntensity]

updateHeatmap(m, heatmapData) ==
  IF ~heatLayer THEN m
  ELSE [m EXCEPT !.heatPoints =
          [i \in 1..Len(heatmapData) |-> Normalise(heatmapData[i])]]

\* heatmap.js addIncidentMarkers: clearLayers, then one marker per incident.
addIncidentMarkers(m, incidents) ==
  IF ~markerLayer THEN m ELSE [m EXCEPT !.markers = incidents]

\* ------------------------------------------------------------- controller

\* updateStatDisplays: an element is written only when its value is defined.
updateStatDisplays(m, data) ==
  LET put(d, el, f) == IF Has(data, f) THEN [d EXCEPT ![el] = data[f]] ELSE d
  IN [m EXCEPT !.dom =
        put(put(put(put(@, "active_alerts", "active_alerts"),
                    "cameras_online", "cameras_active"),
                "incidents_today", "incidents_today"),
            "mockup_alerts", "incidents_today")]

loadHeatmapData(m, by) == Fetch(m, "heatmap", by)
loadIncidents(m, by) == Fetch(m, "incidents", by)
loadStats(m, by) == Fetch(m, "stats", by)

\* The continuations of the three loaders; a failure is caught and only logged.
loadHeatmapDataDone(m, resp) ==
  IF resp.ok
  THEN updateHeatmap(m, IF Has(resp.body, "heatmap") THEN resp.body.heatmap
                        ELSE <<>>)
  ELSE m

loadIncidentsDone(m, resp) ==
  IF resp.ok
  THEN LET shown == addIncidentMarkers(m, IF Has(resp.body, "incidents")
                                          THEN resp.body.incidents ELSE <<>>)
       IN [shown EXCEPT !.dom.incidents_today =
             IF Has(resp.body, "total") THEN resp.body.total ELSE 0]
  ELSE m

\* initCharts: the three charts are created with empty series.
initCharts(m) ==
  [m EXCEPT !.charts = [made |-> TRUE, type |-> 0, severity |-> 0, trend |-> 0]]

\* updateCharts: a chart that exists takes its series when the data has it.
updateCharts(m, data) ==
  LET put(c, f, g) == IF c.made /\ Has(data, g) THEN [c EXCEPT ![f] = data[g]] ELSE c
  IN [m EXCEPT !.charts =
        put(put(put(@, "type", "type_counts"), "severity", "severity_counts"),
            "trend", "daily_trend")]

loadStatsDone(m, resp) ==
  IF resp.ok THEN updateCharts(updateStatDisplays(m, resp.body), resp.body) ELSE m

\* cameras.js fetchCameras: up to its first await, and after it.
fetchCameras(m) == Fetch(m, "cameras", 0)

fetchCamerasDone(m, resp) ==
  IF resp.ok
  THEN LET roster == IF Has(resp.body, "cameras") THEN resp.body.cameras ELSE <<>>
       IN [m EXCEPT !.cameras = roster, !.filteredCameras = roster,
                    !.dom.cameras_online = Len(roster)]
  ELSE m

\* cameras.js _filterCameras: a blank query shows the roster, another one the
\* cameras whose name, route, district or id contains it (query.hits).
_filterCameras(m, query) ==
  [m EXCEPT !.filteredCameras =
     IF query.text = "" THEN m.cameras
     ELSE SelectSeq(m.cameras, LAMBDA cam : cam \in query.hits)]

\* refreshAll that pulls the camera roster as well.
refreshAllWithCameras(m) ==
  fetchCameras(fetchAlerts(loadStats(loadIncidents(loadHeatmapData(m, 0), 0), 0)))

\* refreshAll without DriveSightAlerts.fetchAlerts().
refreshAllNoAlerts(m) == loadStats(loadIncidents(loadHeatmapData(m, 0), 0), 0)

\* refreshAll: the four loaders start in this order; each runs to its fetch.
refreshAll(m) == fetchAlerts(loadStats(loadIncidents(loadHeatmapData(m, 0), 0), 0))

\* ------------------------------------------------------- event multiplexer

\* An alerts callback for new_incident that shows the incident when the frame
\* has no alert.
onNewIncidentAlways(m, data) ==
  _prependAlert(m, IF Has(data, "alert") THEN data.alert ELSE data.incident)

\* alerts.js init, the callback for new_incident: if (data.alert) _prependAlert.
onNewIncident(m, data) ==
  IF Has(data, "alert") THEN _prependAlert(m, data.alert) ELSE m

\* An alerts callback for alert_update that empties the list before it pulls.
onAlertUpdateClears(m) == fetchAlerts(_render([m EXCEPT !.alerts = <<>>]))

\* alerts.js init, the callback for alert_update: () => fetchAlerts().
onAlertUpdate(m) == fetchAlerts(m)

\* on with unshift in place of push.
onPrepends(ls, event, callback) ==
  IF event \in DOMAIN ls THEN [ls EXCEPT ![event] = <<callback>> \o @] ELSE ls

\* off with the test of its filter inverted.
offInverted(ls, event, callback) ==
  IF event \in DOMAIN ls
  THEN [ls EXCEPT ![event] = SelectSeq(@, LAMBDA cb : cb = callback)]
  ELSE ls

\* on(event, callback): push, when the kind is one the manager knows.
on(ls, event, callback) ==
  IF event \in DOMAIN ls THEN [ls EXCEPT ![event] = Append(@, callback)] ELSE ls

\* off(event, callback): filter(cb => cb !== callback)
off(ls, event, callback) ==
  IF event \in DOMAIN ls
  THEN [ls EXCEPT ![event] = SelectSeq(@, LAMBDA cb : cb # callback)]
  ELSE ls

\* One registered callback run on data: the state it leaves and whether it
\* threw.  Reading a field of an absent payload is a TypeError.  A callback of
\* an outside caller throws when the environment says so (throwers); two
\* callbacks of an outside caller change the registry when they are called:
\* extOff calls off("new_incident", extB), extOn calls on("new_incident", extB).
Call(h, data, m, throwers) ==
  CASE h = "alerts_ni" ->
         IF IsUndefined(data) THEN [m |-> m, threw |-> TRUE]
         ELSE [m |-> onNewIncident(m, data), threw |-> FALSE]
    [] h = "alerts_au" -> [m |-> onAlertUpdate(m), threw |-> FALSE]
    [] h = "app_hm" ->
         IF IsUndefined(data) THEN [m |-> m, threw |-> TRUE]
         ELSE [m |-> IF Has(data, "heatmap") THEN updateHeatmap(m, data.heatmap)
                     ELSE m,
               threw |-> FALSE]
    [] h = "app_st" ->
         IF IsUndefined(data) THEN [m |-> m, threw |-> TRUE]
         ELSE [m |-> updateStatDisplays(m, data), threw |-> FALSE]
    [] h = "app_ni" ->
         IF IsUndefined(data) THEN [m |-> m, threw |-> TRUE]
         ELSE [m |-> IF Has(data, "incident")
                     THEN addIncidentMarkers(m, <<data.incident>>) ELSE m,
               threw |-> FALSE]
    [] h = "extOff" ->
         [m |-> [m EXCEPT !.listeners = off(@, "new_incident", "extB")],
          threw |-> FALSE]
    [] h = "extOn" ->
         [m |-> [m EXCEPT !.listeners = on(@, "new_incident", "extB")],
          threw |-> FALSE]
    [] OTHER -> [m |-> m, threw |-> h \in throwers]

\* listeners[event].forEach(cb => { try { cb(data) } catch (e) { log } }):
\* every callback of the array is called, in order; a throw is caught and the
\* loop goes on.  The result carries the calls made and whether a throw escaped.
RECURSIVE ForEach(_, _, _, _, _)
ForEach(cbs, i, data, acc, throwers) ==
  IF i > Len(cbs) THEN acc
  ELSE LET r == Call(cbs[i], data, acc.m, throwers)
       IN ForEach(cbs, i + 1, data,
                  [m |-> r.m,
                   log |-> Append(acc.log, [call |-> cbs[i], threw |-> r.threw]),
                   escaped |-> FALSE],
                  throwers)

\* _notify without the try/catch around cb(data): the first throw ends the loop
\* and leaves _notify.
RECURSIVE ForEachNoCatch(_, _, _, _, _)
ForEachNoCatch(cbs, i, data, acc, throwers) ==
  IF i > Len(cbs) THEN acc
  ELSE LET r == Call(cbs[i], data, acc.m, throwers)
           log == Append(acc.log, [call |-> cbs[i], threw |-> r.threw])
       IN IF r.threw THEN [m |-> r.m, log |-> log, escaped |-> TRUE]
          ELSE ForEachNoCatch(cbs, i + 1, data,
                              [m |-> r.m, log |-> log, escaped |-> FALSE], throwers)

_notifyNoCatch(event, data, m, throwers) ==
  IF event \in DOMAIN m.listeners
  THEN ForEachNoCatch(m.listeners[event], 1, data,
                      [m |-> m, log |-> <<>>, escaped |-> FALSE], throwers)
  ELSE [m |-> m, log |-> <<>>, escaped |-> FALSE]

\* _notify with a loop that reads listeners[event] anew at every step.
RECURSIVE ForEachLive(_, _, _, _, _)
ForEachLive(event, i, data, acc, throwers) ==
  IF i > Len(acc.m.listeners[event]) THEN acc
  ELSE LET cb == acc.m.listeners[event][i]
           r == Call(cb, data, acc.m, throwers)
       IN ForEachLive(event, i + 1, data,
                      [m |-> r.m,
                       log |-> Append(acc.log, [call |-> cb, threw |-> r.threw]),
                       escaped |-> FALSE],
                      throwers)

_notifyLive(event, data, m, throwers) ==
  IF event \in DOMAIN m.listeners
  THEN ForEachLive(event, 1, data,
                   [m |-> m, log |-> <<>>, escaped |-> FALSE], throwers)
  ELSE [m |-> m, log |-> <<>>, escaped |-> FALSE]

\* _notify: forEach walks the array that listeners[event] holds when the
\* dispatch starts, up to the length it has then; off() puts a new array in
\* the registry and on() pushes past that length.
_notify(event, data, m, throwers) ==
  IF event \in DOMAIN m.listeners
  THEN ForEach(m.listeners[event], 1, data,
               [m |-> m, log |-> <<>>, escaped |-> FALSE], throwers)
  ELSE [m |-> m, log |-> <<>>, escaped |-> FALSE]

\* The record of a dispatch in the effects of a task.
Dispatched(event, data, r) ==
  [op |-> "notify", event |-> event, data |-> data, calls |-> r.log]
\* socket.emit(msg): the socket variable is the transport opened last.
Emitted(msg) == [op |-> "emit", msg |-> msg, via |-> socket]

\* The variables a callback can change take the values of m.
Store(m) ==
  /\ alerts' = m.alerts
  /\ alertsError' = m.alertsError
  /\ heatPoints' = m.heatPoints
  /\ markers' = m.markers
  /\ cameras' = m.cameras
  /\ filteredCameras' = m.filteredCameras
  /\ dom' = m.dom
  /\ charts' = m.charts
  /\ hours' = m.hours
  /\ pulls' = m.pulls
  /\ issued' = m.issued
  /\ listeners' = m.listeners

\* Pulls stay within the model's bound.
InBudget(m) == \A d \in Domains : m.issued[d] <= MaxPulls

\* ------------------------------------------------------------ environment

\* Bodies the pull endpoints answer with.  A response is a failure (the fetch
\* rejects or the body is not JSON) or a parsed body; an HTTP error answers
\* with a body that lacks the expected field.
Failure == [ok |-> FALSE]
Body(b) == [ok |-> TRUE, body |-> b]
ErrorBody == Body([error |-> TRUE])

BigSnapshot == [i \in 1..(MaxAlerts + 1) |-> Alert(100 - i)]
AlertSnapshots == {<<Alert(1)>>, <<Alert(2), Alert(1)>>, <<Alert(1), Alert(2)>>,
                   BigSnapshot}

HeatFor(h) == IF h = 6 THEN <<Point(1, 3)>> ELSE <<Point(1, 3), Point(2, 0)>>
IncidentsFor(h) == IF h = 6 THEN <<Incident(1)>> ELSE <<Incident(1), Incident(2)>>
\* The k-th stats record of the server: every field of it reads 10 + k, a value
\* no other domain's count takes, so that a display tells which record it shows.
StatsRecord(k) ==
  LET v == 10 + k
  IN [active_alerts |-> v, cameras_active |-> v, incidents_today |-> v,
      type_counts |-> v, severity_counts |-> v, daily_trend |-> v]

Responses(p) ==
  {Failure, ErrorBody} \cup
  CASE p.dom = "alerts" -> {Body([alerts |-> a]) : a \in AlertSnapshots}
    [] p.dom = "heatmap" -> {Body([heatmap |-> HeatFor(p.hours)])}
    [] p.dom = "incidents" ->
         {Body([incidents |-> IncidentsFor(p.hours),
                total |-> Len(IncidentsFor(p.hours))])}
    [] p.dom = "stats" -> {Body(StatsRecord(k)) : k \in {1, 2}}
    [] p.dom = "cameras" -> {Body([cameras |-> <<1, 2>>])}

\* Payloads of the push frames.  The server announces an incident once: the
\* n-th frame of a run is about incident n, with or without its alert #n (the
\* alerts snapshots above hold #1 and #2 as well).
Frames(kind) ==
  {Undefined} \cup
  CASE kind = "new_incident" ->
         {[incident |-> Incident(nPush + 1)],
          [incident |-> Incident(nPush + 1), alert |-> Alert(nPush + 1)]}
    [] kind = "alert_update" -> {[id |-> 1]}
    [] kind = "heatmap_update" ->
         {[heatmap |-> <<Point(3, 10)>>], [heatmap |-> <<[lat |-> 4, lng |-> 4]>>]}
    [] kind = "stats_update" -> {StatsRecord(3), [active_alerts |-> 14]}

\* Payloads that are not of the expected shape: the alert of a new_incident is
\* an object without any of an alert's fields.
MalformedAlert == [garbage |-> TRUE]
MalformedFrames == {Undefined, [alert |-> MalformedAlert]}

\* ------------------------------------------------------------------- Init

Init ==
  /\ sockets = <<>>
  /\ attempts = <<>>
  /\ nConn = 0
  /\ listeners = [k \in Kinds |-> <<>>]
  /\ alerts = <<>>
  /\ alertsError = FALSE
  /\ heatLayer = FALSE
  /\ heatPoints = <<>>
  /\ markers = <<>>
  /\ cameras = <<>>
  /\ filteredCameras = <<>>
  /\ dom = [active_alerts |-> Placeholder, cameras_online |-> Placeholder,
            incidents_today |-> Placeholder, mockup_alerts |-> Placeholder]
  /\ charts = [made |-> FALSE, type |-> 0, severity |-> 0, trend |-> 0]
  /\ hours = DefaultHours
  /\ dashboardInitialized = FALSE
  /\ observing = TRUE
  /\ inits = <<>>
  /\ timers = 0
  /\ pulls = {}
  /\ issued = [d \in Domains |-> 0]
  /\ applied = [d \in Domains |-> 0]
  /\ newest = [d \in Domains |-> 0]
  /\ refreshes = <<>>
  /\ nPush = 0
  /\ nExt = 0
  /\ effects = <<>>
  /\ escaped = FALSE

\* --------------------------------------------------------- socket manager

\* The options without reconnectionAttempts (the transport then retries forever).
OptionsNoLimit == [reconnection |-> TRUE, reconnectionDelay |-> 2000]

\* The options connect() passes to io().
Options == [reconnection |-> TRUE, reconnectionDelay |-> 2000,
            reconnectionAttempts |-> 20]

\* The transport starts another reconnection attempt after n failed ones.
MayReconnect(n) ==
  /\ Options.reconnection
  /\ Has(Options, "reconnectionAttempts") => n < Options.reconnectionAttempts

\* connect(): socket = io(...) opens a transport and installs its handlers.
connect(ss) == Append(ss, "connecting")

\* connect() called by a caller outside initDashboard.
Connect ==
  /\ Len(sockets) - Cardinality({i \in 1..Len(inits) : inits[i] # "delay"})
       < MaxConnects
  /\ sockets' = connect(sockets)
  /\ attempts' = Append(attempts, 0)
  /\ effects' = <<>>
  /\ escaped' = FALSE
  /\ UNCHANGED <<nConn, listeners, viewVars, pullVars, appVars, nPush, nExt>>

\* The 'connect' callback without its second emit.
OnConnectEffectsNoHeatmap(r) ==
  <<Emitted("subscribe_alerts"),
    Dispatched("connection_change", [connected |-> TRUE], r)>>

\* What the 'connect' callback does: two emits on the socket variable, then
\* the connection_change dispatch.
OnConnectEffects(r) ==
  <<Emitted("subscribe_alerts"), Emitted("subscribe_heatmap"),
    Dispatched("connection_change", [connected |-> TRUE], r)>>

\* socket.on('connect'): the first connect of transport s, or a reconnection
\* attempt that succeeds.
OnConnect(s) ==
  /\ \/ sockets[s] = "connecting"
     \/ sockets[s] = "disconnected" /\ MayReconnect(attempts[s])
  /\ nConn < MaxConnEvents
  /\ \E throwers \in SUBSET ExtHandlers :
       LET r == _notify("connection_change", [connected |-> TRUE], Mem, throwers)
       IN /\ Store(r.m)
          /\ effects' = OnConnectEffects(r)
          /\ escaped' = r.escaped
  /\ sockets' = [sockets EXCEPT ![s] = "connected"]
  /\ attempts' = [attempts EXCEPT ![s] = 0]
  /\ nConn' = nConn + 1
  /\ UNCHANGED <<heatLayer, applied, newest, refreshes, initVars, nPush, nExt>>

\* A 'disconnect' callback that also empties the alert panel.
OnDisconnectResets(s) ==
  /\ sockets[s] = "connected"
  /\ \E throwers \in SUBSET ExtHandlers :
       LET r == _notify("connection_change", [connected |-> FALSE], Mem, throwers)
       IN /\ Store(_render([r.m EXCEPT !.alerts = <<>>]))
          /\ effects' = <<Dispatched("connection_change", [connected |-> FALSE], r)>>
          /\ escaped' = r.escaped
  /\ sockets' = [sockets EXCEPT ![s] = "disconnected"]
  /\ UNCHANGED <<attempts, nConn, heatLayer, applied, newest, refreshes, initVars, nPush, nExt>>

\* socket.on('disconnect')
OnDisconnect(s) ==
  /\ sockets[s] = "connected"
  /\ \E throwers \in SUBSET ExtHandlers :
       LET r == _notify("connection_change", [connected |-> FALSE], Mem, throwers)
       IN /\ Store(r.m)
          /\ effects' = <<Dispatched("connection_change", [connected |-> FALSE], r)>>
          /\ escaped' = r.escaped
  /\ sockets' = [sockets EXCEPT ![s] = "disconnected"]
  /\ UNCHANGED <<attempts, nConn, heatLayer, applied, newest, refreshes, initVars, nPush, nExt>>

\* A reconnection attempt of transport s fails (the code listens to none of the
\* transport's reconnect events).
ReconnectFailed(s) ==
  /\ sockets[s] = "disconnected"
  /\ MayReconnect(attempts[s])
  /\ attempts[s] < MaxRetries
  /\ attempts' = [attempts EXCEPT ![s] = @ + 1]
  /\ effects' = <<>>
  /\ escaped' = FALSE
  /\ UNCHANGED <<sockets, nConn, listeners, viewVars, pullVars, appVars, nPush, nExt>>

\* socket.on(kind) for the four real-time events: _notify(kind, data).
OnFrame(s, kind, data) ==
  /\ sockets[s] = "connected"
  /\ \E throwers \in SUBSET ExtHandlers :
       LET r == _notify(kind, data, Mem, throwers)
       IN /\ InBudget(r.m)
          /\ Store(r.m)
          /\ effects' = <<Dispatched(kind, data, r)>>
          /\ escaped' = r.escaped
  /\ nPush' = nPush + 1
  /\ UNCHANGED <<sockVars, heatLayer, applied, newest, refreshes, initVars, nExt>>

\* Kinds an outside caller registers for ("bogus" is one the manager lacks).
ExtKinds == {"new_incident", "connection_change", "bogus"}

On(event, callback) ==
  /\ nExt < MaxExt
  /\ listeners' = on(listeners, event, callback)
  /\ nExt' = nExt + 1
  /\ effects' = <<>>
  /\ escaped' = FALSE
  /\ UNCHANGED <<sockVars, viewVars, pullVars, appVars, nPush>>

Off(event, callback) ==
  /\ \E k \in DOMAIN listeners : \E i \in 1..Len(listeners[k]) :
       listeners[k][i] = callback
  /\ listeners' = off(listeners, event, callback)
  /\ effects' = <<[op |-> "off", event |-> event, callback |-> callback]>>
  /\ escaped' = FALSE
  /\ UNCHANGED <<sockVars, viewVars, pullVars, appVars, nPush, nExt>>

\* ---------------------------------------------------------- initDashboard

\* initDashboard up to its first await, as the i-th started run: the map is
\* created, connect() is called, DriveSightAlerts.init() fetches the alerts and
\* registers its two callbacks, DriveSightCameras.init() fetches the roster,
\* and loadHeatmapData() is awaited.
initDashboard(i, pcs) ==
  /\ heatLayer' = TRUE
  /\ sockets' = connect(sockets)
  /\ attempts' = Append(attempts, 0)
  /\ Store(loadHeatmapData(
             fetchCameras(
               [fetchAlerts(Mem) EXCEPT
                  !.listeners = on(on(@, "new_incident", "alerts_ni"),
                                   "alert_update", "alerts_au")]), i))
  /\ inits' = [pcs EXCEPT ![i] = "heatmap"]
  /\ effects' = <<>>
  /\ escaped' = FALSE
  /\ UNCHANGED <<nConn, applied, newest, refreshes, timers, nPush, nExt>>

\* dashboardObserver: the dashboard section scrolls into view.
ScrollIntoView ==
  /\ observing
  /\ ~dashboardInitialized
  /\ dashboardInitialized' = TRUE
  /\ initDashboard(Len(inits) + 1, Append(inits, "start"))
  /\ observing' = FALSE

\* dashboardObserver reports the section in view when the dashboard has been
\* initialised by a click: the condition fails and nothing happens.
ScrollIgnored ==
  /\ observing
  /\ dashboardInitialized
  /\ effects' = <<[op |-> "trigger", by |-> "scroll", ignored |-> TRUE]>>
  /\ escaped' = FALSE
  /\ UNCHANGED <<sockVars, listeners, viewVars, pullVars, appVars, nPush, nExt>>

\* The click handler without its assignment to dashboardInitialized.
ClickLinkNoFlag ==
  /\ ~dashboardInitialized
  /\ Len(inits) < 2
  /\ inits' = Append(inits, "delay")
  /\ effects' = <<>>
  /\ escaped' = FALSE
  /\ UNCHANGED <<sockVars, listeners, viewVars, pullVars, hours, timers,
                 dashboardInitialized, observing, nPush, nExt>>

\* A click on a link to #dashboard: setTimeout(initDashboard, 300).
ClickLink ==
  /\ ~dashboardInitialized
  /\ dashboardInitialized' = TRUE
  /\ inits' = Append(inits, "delay")
  /\ effects' = <<>>
  /\ escaped' = FALSE
  /\ UNCHANGED <<sockVars, listeners, viewVars, pullVars, hours, timers, observing,
                 nPush, nExt>>

\* A click on a link to #dashboard when the dashboard has been initialised:
\* the condition fails and nothing happens.
ClickIgnored ==
  /\ dashboardInitialized
  /\ effects' = <<[op |-> "trigger", by |-> "click", ignored |-> TRUE]>>
  /\ escaped' = FALSE
  /\ UNCHANGED <<sockVars, listeners, viewVars, pullVars, appVars, nPush, nExt>>

\* The 300 ms timer of ClickLink fires.
DelayedInit(i) ==
  /\ inits[i] = "delay"
  /\ initDashboard(i, inits)
  /\ UNCHANGED <<dashboardInitialized, observing>>

\* initDashboard after an await: the next loader, and after loadStats the
\* charts, the refresh interval and the three real-time callbacks.
InitResumed(pc) ==
  CASE pc = "heatmap" -> "incidents"
    [] pc = "incidents" -> "stats"
    [] pc = "stats" -> "done"
    [] OTHER -> pc

InitLoads(m, pc, by) ==
  CASE pc = "heatmap" -> loadIncidents(m, by)
    [] pc = "incidents" -> loadStats(m, by)
    [] pc = "stats" -> initCharts(m)
    [] OTHER -> m

InitRegisters(ls) ==
  on(on(on(ls, "heatmap_update", "app_hm"), "stats_update", "app_st"),
     "new_incident", "app_ni")

\* ------------------------------------------------------------------ pulls

\* The continuation of the loader that issued pull p, on response resp.
Done(m, p, resp) ==
  CASE p.dom = "alerts" -> fetchAlertsDone(m, resp)
    [] p.dom = "heatmap" -> loadHeatmapDataDone(m, resp)
    [] p.dom = "incidents" -> loadIncidentsDone(m, resp)
    [] p.dom = "stats" -> loadStatsDone(m, resp)
    [] p.dom = "cameras" -> fetchCamerasDone(m, resp)

\* The loaders' promises: every loader wraps its fetch and its continuation in
\* try/catch, so its promise is fulfilled whatever the response.
LoaderOutcomeNoCatch(p, resp) == IF resp.ok THEN "fulfilled" ELSE "rejected"

LoaderOutcome(p, resp) == "fulfilled"

\* Promise.all in refreshAll: the run r ends when every loader's promise is
\* fulfilled, and raises at the first rejected one.
Settle(r, p, resp) ==
  LET pending == r.pending \ {p.dom}
  IN [pending |-> pending,
      failed |-> IF resp.ok THEN r.failed ELSE r.failed \cup {p.dom},
      state |-> IF r.state # "running" THEN r.state
                ELSE IF LoaderOutcome(p, resp) = "rejected" THEN "raised"
                ELSE IF pending = {} THEN "done" ELSE "running"]

\* The response of pull p arrives (in any order among the pulls in flight).
\* When an initDashboard awaits the loader, it resumes in the same task.  The
\* effects record the response and, for an alerts pull, the list it found.
Response(p, resp) ==
  LET m0 == [Mem EXCEPT !.pulls = @ \ {p}]
      m1 == Done(m0, p, resp)
      pc == IF p.by > 0 THEN inits[p.by] ELSE "none"
      m2 == InitLoads(m1, pc, p.by)
  IN /\ InBudget(m2)
     /\ Store([m2 EXCEPT !.listeners = IF pc = "stats" THEN InitRegisters(@) ELSE @])
     /\ applied' = IF resp.ok THEN [applied EXCEPT ![p.dom] = p.seq] ELSE applied
     /\ newest' = IF resp.ok /\ p.seq > newest[p.dom]
                  THEN [newest EXCEPT ![p.dom] = p.seq] ELSE newest
     /\ refreshes' = IF p.ref > 0
                     THEN [refreshes EXCEPT ![p.ref] = Settle(@, p, resp)]
                     ELSE refreshes
     /\ inits' = IF p.by > 0 THEN [inits EXCEPT ![p.by] = InitResumed(pc)] ELSE inits
     /\ timers' = IF pc = "stats" THEN timers + 1 ELSE timers
     /\ effects' = <<[op |-> "response", dom |-> p.dom, seq |-> p.seq, resp |-> resp,
                      had |-> IF p.dom = "alerts" THEN alerts ELSE <<>>]>>
     /\ escaped' = FALSE
     /\ UNCHANGED <<sockVars, heatLayer, dashboardInitialized, observing, nPush, nExt>>

\* ---------------------------------------------------------------- refresh

\* await Promise.all([...]): the run of refreshAll that awaits the loaders
\* which started the pulls new.
Awaits(ps, new, r) == {IF p \in new THEN [p EXCEPT !.ref = r] ELSE p : p \in ps}

\* A task that runs refreshAll on m, up to its await; trigger names what
\* started it.
Refresh(m, trigger) ==
  LET after == refreshAll(m)
      r == Len(refreshes) + 1
      new == after.pulls \ m.pulls
  IN /\ InBudget(after)
     /\ Store([after EXCEPT !.pulls = Awaits(@, new, r)])
     /\ refreshes' = Append(refreshes, [pending |-> {p.dom : p \in new},
                                        failed |-> {}, state |-> "running"])
     /\ effects' = <<[op |-> "refresh", by |-> trigger]>>
     /\ escaped' = FALSE
     /\ UNCHANGED <<sockVars, heatLayer, applied, newest, initVars, nPush, nExt>>

\* setInterval(refreshAll, 30000) ticks.
Tick == timers > 0 /\ Refresh(Mem, "tick")

\* The refresh button, whose listener initDashboard adds at its end.
ClickRefresh == timers > 0 /\ Refresh(Mem, "click")

\* The time range selector changes to w; its listener, once added, refreshes.
ChangeWindow(w) ==
  /\ w # hours
  /\ IF timers > 0
     THEN Refresh([Mem EXCEPT !.hours = w], "change")
     ELSE /\ hours' = w
          /\ effects' = <<>>
          /\ escaped' = FALSE
          /\ UNCHANGED <<sockVars, listeners, viewVars, pullVars, initVars, nPush,
                         nExt>>

\* Texts typed into the camera search box, with the cameras each one matches.
Queries == {[text |-> "", hits |-> {}], [text |-> "i-5", hits |-> {1}],
            [text |-> "zzz", hits |-> {}]}

\* The input listener of the camera search box, which DriveSightCameras.init()
\* adds when initDashboard runs.
FilterInput(query) ==
  /\ \E i \in 1..Len(inits) : inits[i] # "delay"
  /\ Store(_filterCameras(Mem, query))
  /\ effects' = <<[op |-> "filter", query |-> query]>>
  /\ escaped' = FALSE
  /\ UNCHANGED <<sockVars, heatLayer, applied, newest, refreshes, initVars, nPush,
                 nExt>>

\* ------------------------------------------------------------------- Next

Sockets == 1..Len(sockets)
PullsOf(doms) == {p \in pulls : p.dom \in doms}
\* The pulls an initDashboard awaits.
Awaited == {p \in pulls : p.by > 0}

\* A push frame of one of kinds arrives on a connected transport.
Push(kinds) ==
  /\ nPush < MaxPush
  /\ \E s \in Sockets : \E kind \in kinds : \E data \in Frames(kind) :
       OnFrame(s, kind, data)

\* The whole client, with every task of its environment.
Next ==
  \/ Connect
  \/ \E s \in Sockets : OnConnect(s)
  \/ \E s \in Sockets : OnDisconnect(s)
  \/ \E s \in Sockets : ReconnectFailed(s)
  \/ Push(PushKinds)
  \/ \E event \in ExtKinds : \E callback \in ExtHandlers : On(event, callback)
  \/ \E event \in ExtKinds : \E callback \in ExtHandlers : Off(event, callback)
  \/ ScrollIntoView
  \/ ScrollIgnored
  \/ ClickLink
  \/ ClickIgnored
  \/ \E i \in 1..Len(inits) : DelayedInit(i)
  \/ \E p \in pulls : \E resp \in Responses(p) : Response(p, resp)
  \/ Tick
  \/ ClickRefresh
  \/ \E w \in Windows : ChangeWindow(w)
  \/ \E query \in Queries : FilterInput(query)

Spec == Init /\ [][Next]_vars

\* The alert panel: the dashboard starts, the transport connects, alert pushes
\* and alert pull responses interleave; the other domains' pulls stay in flight.
NextAlerts ==
  \/ ScrollIntoView
  \/ \E s \in Sockets : OnConnect(s)
  \/ Push({"new_incident", "alert_update"})
  \/ \E p \in PullsOf({"alerts"}) : \E resp \in Responses(p) : Response(p, resp)

SpecAlerts == Init /\ [][NextAlerts]_vars

\* The heat map: initDashboard runs to its end, then refreshes, window changes,
\* heat-map pushes and heat-map pull responses interleave.
NextHeat ==
  \/ ScrollIntoView
  \/ \E s \in Sockets : OnConnect(s)
  \/ Push({"heatmap_update"})
  \/ \E p \in Awaited \cup PullsOf({"heatmap"}) : \E resp \in Responses(p) :
       Response(p, resp)
  \/ Tick
  \/ ClickRefresh
  \/ \E w \in Windows : ChangeWindow(w)

SpecHeat == Init /\ [][NextHeat]_vars

\* The connection manager: outside callers of connect(), transport connects
\* and disconnects, and push frames, while initDashboard runs to its end.
NextConn ==
  \/ Connect
  \/ \E s \in Sockets : OnConnect(s)
  \/ \E s \in Sockets : OnDisconnect(s)
  \/ Push({"new_incident"})
  \/ ScrollIntoView
  \/ ClickLink
  \/ \E i \in 1..Len(inits) : DelayedInit(i)
  \/ \E p \in Awaited : \E resp \in Responses(p) \ {Failure, ErrorBody} :
       Response(p, resp)

SpecConn == Init /\ [][NextConn]_vars

\* The multiplexer: outside callers of on and off, and push frames on one
\* transport, while initDashboard runs to its end.
NextMux ==
  \/ \E event \in ExtKinds : \E callback \in ExtHandlers : On(event, callback)
  \/ \E event \in ExtKinds : \E callback \in ExtHandlers : Off(event, callback)
  \/ \E s \in Sockets : OnConnect(s)
  \/ Push({"new_incident"})
  \/ ScrollIntoView
  \/ \E p \in Awaited : \E resp \in Responses(p) \ {Failure, ErrorBody} :
       Response(p, resp)

SpecMux == Init /\ [][NextMux]_vars

\* Reconnection: transports connect, drop, and retry until the attempts run
\* out; an outside caller may call connect() again.
NextReconn ==
  \/ ScrollIntoView
  \/ Connect
  \/ \E s \in Sockets : OnConnect(s)
  \/ \E s \in Sockets : OnDisconnect(s)
  \/ \E s \in Sockets : ReconnectFailed(s)

SpecReconn == Init /\ [][NextReconn]_vars

\* Push frames, malformed ones among them, once initDashboard has run to its
\* end and every callback of the repository is registered.
NextFrames ==
  \/ ScrollIntoView
  \/ \E s \in Sockets : OnConnect(s)
  \/ /\ nPush < MaxPush
     /\ \E s \in Sockets : \E data \in Frames("new_incident") \cup MalformedFrames :
          OnFrame(s, "new_incident", data)
  \/ \E p \in Awaited : \E resp \in Responses(p) \ {Failure, ErrorBody} :
       Response(p, resp)

SpecFrames == Init /\ [][NextFrames]_vars

\* Refresh: the pulls of initDashboard are answered with the first snapshots;
\* then refreshAll runs on timer ticks and each of its pulls is answered, in any
\* order, with the second snapshot of its domain or with a failure.
Snapshot(p, k) ==
  CASE p.dom = "alerts" -> Body([alerts |-> [i \in 1..k |-> Alert(k + 1 - i)]])
    [] p.dom = "heatmap" -> Body([heatmap |-> [i \in 1..k |-> Point(i, 3)]])
    [] p.dom = "incidents" ->
         Body([incidents |-> [i \in 1..k |-> Incident(i)], total |-> k])
    [] p.dom = "stats" -> Body(StatsRecord(k))
    [] p.dom = "cameras" -> Body([cameras |-> <<1, 2>>])

NextRefresh ==
  \/ ScrollIntoView
  \/ Len(refreshes) < MaxRefresh /\ Tick
  \/ \E p \in {q \in pulls : q.ref = 0} : Response(p, Snapshot(p, 1))
  \/ \E p \in {q \in pulls : q.ref > 0} : \E resp \in {Failure, Snapshot(p, 2)} :
       Response(p, resp)

SpecRefresh == Init /\ [][NextRefresh]_vars

\* The stats: initDashboard runs to its end, then stats_update pushes, timer
\* ticks and the responses of the stats and alerts pulls interleave.
NextStats ==
  \/ ScrollIntoView
  \/ \E s \in Sockets : OnConnect(s)
  \/ Push({"stats_update"})
  \/ Len(refreshes) < MaxRefresh /\ Tick
  \/ \E p \in Awaited \cup PullsOf({"stats"}) : \E resp \in Responses(p) :
       Response(p, resp)
  \/ \E p \in PullsOf({"alerts", "cameras"}) : Response(p, Snapshot(p, 2))

SpecStats == Init /\ [][NextStats]_vars

\* The three refresh triggers: initDashboard runs to its end on first
\* snapshots, then ticks, clicks and selector changes refresh, and the heat-map
\* and incidents pulls of the refreshes are answered in any order.
NextWindow ==
  \/ ScrollIntoView
  \/ \E p \in Awaited : Response(p, Snapshot(p, 1))
  \/ Tick
  \/ ClickRefresh
  \/ \E w \in Windows : ChangeWindow(w)
  \/ \E p \in {q \in PullsOf({"heatmap", "incidents"}) : q.ref > 0} :
       Response(p, Snapshot(p, 2))

SpecWindow == Init /\ [][NextWindow]_vars

\* The camera list: initDashboard runs to its end on first snapshots, the
\* roster pull is answered or fails, and pushes of every kind, timer ticks and
\* searches interleave.
NextCameras ==
  \/ ScrollIntoView
  \/ \E s \in Sockets : OnConnect(s)
  \/ Push(PushKinds)
  \/ Len(refreshes) < MaxRefresh /\ Tick
  \/ \E p \in Awaited : Response(p, Snapshot(p, 1))
  \/ \E p \in PullsOf({"cameras"}) : \E resp \in Responses(p) : Response(p, resp)
  \/ \E query \in Queries : FilterInput(query)

SpecCameras == Init /\ [][NextCameras]_vars

\* Pushes during initialisation: the transport connects and frames for the
\* controller's three callbacks arrive while initDashboard awaits its pulls.
NextInitPush ==
  \/ ScrollIntoView
  \/ \E s \in Sockets : OnConnect(s)
  \/ Push({"heatmap_update", "stats_update", "new_incident"})
  \/ \E p \in Awaited : Response(p, Snapshot(p, 1))

SpecInitPush == Init /\ [][NextInitPush]_vars

\* The two triggers of initDashboard in every order and number: the section
\* scrolls into view, the links are clicked, the 300 ms timers fire, the
\* awaited pulls are answered, and then the timer ticks and frames arrive.
NextInit ==
  \/ ScrollIntoView
  \/ ScrollIgnored
  \/ ClickLink
  \/ ClickIgnored
  \/ \E i \in 1..Len(inits) : DelayedInit(i)
  \/ \E s \in Sockets : OnConnect(s)
  \/ \E p \in Awaited : Response(p, Snapshot(p, 1))
  \/ Len(refreshes) < MaxRefresh /\ Tick
  \/ Push({"new_incident"})

SpecInit == Init /\ [][NextInit]_vars

\* Callbacks that change the registry while they are dispatched: an outside
\* caller opens the transport and registers extOff, extOn and extB for
\* new_incident, and frames arrive.
ReentrantHandlers == {"extOff", "extOn", "extB"}

NextReentrant ==
  \/ Connect
  \/ \E s \in Sockets : OnConnect(s)
  \/ \E callback \in ReentrantHandlers : On("new_incident", callback)
  \/ Push({"new_incident"})

SpecReentrant == Init /\ [][NextReentrant]_vars

\* Sequential alert pushes: the n-th alert pushed is alert #n, and incidents
\* without an alert come in between; the alerts pull answers [#1] or fails.
NextAlertId == IF alerts = <<>> THEN 1 ELSE alerts[1].id + 1
SeqFrames == {[incident |-> Incident(nPush + 1)],
              [incident |-> Incident(nPush + 1), alert |-> Alert(NextAlertId)]}

NextPush ==
  \/ ScrollIntoView
  \/ \E s \in Sockets : OnConnect(s)
  \/ /\ nPush < SeqPushes
     /\ \E s \in Sockets : \E data \in SeqFrames : OnFrame(s, "new_incident", data)
  \/ \E p \in PullsOf({"alerts"}) : \E resp \in {Failure, Body([alerts |-> <<Alert(1)>>])} :
       Response(p, resp)

SpecPush == Init /\ [][NextPush]_vars

\* ----------------------------------------------------------------- claims

\* A dispatch of event in the effects of the task that ran last.
IsDispatch(e, event) == e.op = "notify" /\ e.event = event

\* The task that ran last delivered a new_incident frame carrying an alert.
PushedAlert(fx) ==
  /\ Len(fx) = 1
  /\ IsDispatch(fx[1], "new_incident")
  /\ Has(fx[1].data, "alert")

\* C1: for every domain, the pull response applied last is the newest one applied
\* so far: a response of an earlier pull that arrives after the response of a
\* later pull does not replace the view (for the heat map: the 24h answer is
\* not rendered after the 6h answer).
C1_LastRequestWins == \A d \in Domains : applied[d] = newest[d]

\* C2: in every reachable state the alerts list has at most 30 entries, also
\* right after a pull whose snapshot holds more than 30.
C2_AtMost30 == Len(alerts) <= MaxAlerts

\* C3: as long as no pull response was applied, the alerts list built from an
\* empty list by new_incident pushes (with or without an alert) has at most 30
\* entries.
C3_PushOnlyAtMost30 == applied["alerts"] = 0 => Len(alerts) <= MaxAlerts

\* 31 alerts or more were pushed, no pull was applied, the list holds 30.
C3_Witness ==
  /\ applied["alerts"] = 0
  /\ nPush > MaxAlerts
  /\ Len(alerts) = MaxAlerts
  /\ alerts[1].id > MaxAlerts

\* C4: a new_incident push carrying alert x turns list V into the first 30
\* elements of <<x>> \o V; so with the n-th alert pushed being #n, the list
\* reads #n, #n-1, ... from its head, after a pull of [#1] as after 31 pushes.
C4_PrependStep ==
  PushedAlert(effects') =>
    alerts' = Slice(<<effects'[1].data.alert>> \o alerts, MaxAlerts)

C4_Descending == alerts = [i \in 1..Len(alerts) |-> Alert(NextAlertId - i)]

C4_PrependTrim == [][C4_PrependStep]_vars /\ []C4_Descending

\* The 31st sequential push was just delivered: the list is #31 .. #2.
C4_Witness ==
  /\ PushedAlert(effects)
  /\ applied["alerts"] = 0
  /\ alerts = [i \in 1..MaxAlerts |-> Alert(MaxAlerts + 2 - i)]

\* C5: in every reachable state the alerts list is sorted newest first
\* (created_at does not increase from the head on).
C5_NewestFirst ==
  \A i \in 1..(Len(alerts) - 1) : alerts[i].created_at >= alerts[i + 1].created_at

\* C6: the alerts list never holds the same alert twice.
C6_NoDuplicates ==
  \A i, j \in 1..Len(alerts) : i # j => alerts[i] # alerts[j]

\* C7: a dispatch calls every callback registered for its kind, in order, also
\* after one of them threw; no exception leaves the dispatch; and the dispatch
\* leaves the registry as it was, so that later dispatches call them all again.
C7_AllCalled ==
  \A i \in 1..Len(effects) :
    effects[i].op = "notify" =>
      /\ ~escaped
      /\ [j \in 1..Len(effects[i].calls) |-> effects[i].calls[j].call]
           = listeners[effects[i].event]

C7_RegistryKept ==
  (\E i \in 1..Len(effects') : effects'[i].op = "notify") => listeners' = listeners

C7_HandlerIsolation == []C7_AllCalled /\ [][C7_RegistryKept]_vars

\* A callback threw in a dispatch and a callback registered after it ran.
C7_Witness ==
  \E i \in 1..Len(effects) :
    /\ IsDispatch(effects[i], "new_incident")
    /\ \E j, k \in 1..Len(effects[i].calls) :
         /\ j < k
         /\ effects[i].calls[j].threw
         /\ ~effects[i].calls[k].threw

\* C8: a task announces subscriptions exactly when it is the connect event of a
\* transport (first connect or reconnect): then it emits subscribe_alerts once,
\* subscribe_heatmap once, and dispatches connection_change connected=true.
ConnectEvent == \E s \in Sockets : sockets[s] # "connected" /\ sockets'[s] = "connected"

C8_Step ==
  IF ConnectEvent
  THEN /\ Len(effects') = 3
       /\ effects'[1].op = "emit" /\ effects'[1].msg = "subscribe_alerts"
       /\ effects'[2].op = "emit" /\ effects'[2].msg = "subscribe_heatmap"
       /\ IsDispatch(effects'[3], "connection_change")
       /\ effects'[3].data = [connected |-> TRUE]
  ELSE \A i \in 1..Len(effects') : effects'[i].op # "emit"

C8_SubscribeOnConnect == [][C8_Step]_vars

\* The only transport has just reconnected.
C8_Witness ==
  /\ Len(sockets) = 1
  /\ nConn = 2
  /\ Len(effects) = 3
  /\ effects[1].op = "emit"

\* C9: the disconnect event of a transport dispatches connection_change
\* connected=false and leaves the alerts list, the heat-map points, the incident
\* markers, the counters and the registry as they were.
DisconnectEvent ==
  \E s \in Sockets : sockets[s] = "connected" /\ sockets'[s] = "disconnected"

C9_Step ==
  DisconnectEvent =>
    /\ Len(effects') = 1
    /\ IsDispatch(effects'[1], "connection_change")
    /\ effects'[1].data = [connected |-> FALSE]
    /\ UNCHANGED <<alerts, heatPoints, markers, dom, listeners>>

C9_DisconnectKeepsViews == [][C9_Step]_vars

\* A transport has just disconnected while every view held data.
C9_Witness ==
  /\ Len(effects) = 1
  /\ IsDispatch(effects[1], "connection_change")
  /\ effects[1].data = [connected |-> FALSE]
  /\ alerts # <<>>
  /\ heatPoints # <<>>
  /\ markers # <<>>
  /\ dom.cameras_online # Placeholder

\* C10: connect() is idempotent: however often it is called, one transport is
\* open and one set of transport handlers is installed.
C10_ConnectIdempotent == Len(sockets) <= 1

\* C11: after a disconnect a transport makes at most 20 reconnection attempts;
\* once 20 attempts have failed it makes no more and stays disconnected, also
\* when connect() is called again (which opens another transport).
Exhausted(s) == sockets[s] = "disconnected" /\ attempts[s] = 20

C11_AtMost20 == \A s \in Sockets : attempts[s] <= 20

C11_StaysDown == \A s \in Sockets : Exhausted(s) => Exhausted(s)'

C11_BoundedReconnect == []C11_AtMost20 /\ [][C11_StaysDown]_vars

\* A transport ran out of attempts and connect() was called again afterwards.
C11_Witness ==
  /\ Len(sockets) = 2
  /\ Exhausted(1)
  /\ sockets[2] = "connected"

\* C12: when a malformed push frame (payload absent, or not of the expected
\* shape) is delivered after a valid frame was applied, it is dispatched to all
\* callbacks, no exception leaves the socket callback, and no view changes;
\* a valid frame is dispatched to all callbacks and its alert heads the list.
IsMalformed(data) ==
  \/ IsUndefined(data)
  \/ Has(data, "alert") /\ data.alert \notin {Alert(i) : i \in 1..SeqPushes}

FrameDelivered(fx) == Len(fx) = 1 /\ fx[1].op = "notify" /\ fx[1].event \in PushKinds

C12_Step ==
  (/\ inits = <<"done">>
   /\ PushedAlert(effects) /\ ~IsMalformed(effects[1].data)
   /\ FrameDelivered(effects')) =>
    /\ ~escaped'
    /\ [j \in 1..Len(effects'[1].calls) |-> effects'[1].calls[j].call]
         = listeners[effects'[1].event]
    /\ IF IsMalformed(effects'[1].data)
       THEN UNCHANGED <<alerts, heatPoints, markers, dom>>
       ELSE Has(effects'[1].data, "alert") => alerts'[1] = effects'[1].data.alert

C12_MalformedFrameHarmless == [][C12_Step]_vars

\* C13: a dispatch of kind k calls the callbacks that are registered for k when
\* the dispatch begins, each once per registration and in the order of the
\* registry, within the task of the dispatch, and calls no callback of another
\* kind; and on() registers at the end of the kind's registry, so the order of
\* the registry is the order of registration.
CallsOf(e) == [j \in 1..Len(e.calls) |-> e.calls[j].call]

C13_DispatchStep ==
  \A i \in 1..Len(effects') :
    effects'[i].op = "notify" => CallsOf(effects'[i]) = listeners[effects'[i].event]

C13_OnStep ==
  nExt' # nExt =>
    \/ listeners' = listeners
    \/ \E k \in Kinds : \E cb \in ExtHandlers :
         listeners' = [listeners EXCEPT ![k] = Append(@, cb)]

C13_RegistrationOrder == [][C13_DispatchStep /\ C13_OnStep]_vars

\* A callback registered twice, once before and once after initDashboard
\* registered its own, was called twice, in registration order.
C13_Witness ==
  /\ Len(effects) = 1
  /\ IsDispatch(effects[1], "new_incident")
  /\ CallsOf(effects[1]) = <<"alerts_ni", "extA", "app_ni", "extA">>
  /\ listeners["alert_update"] = <<"alerts_au">>

\* C14: off(kind, handler) leaves kind's registry without the handler and with
\* its other callbacks in their order, and leaves every other kind's registry
\* as it was; when the handler is not registered for kind (or the manager has
\* no such kind) the whole registry is unchanged; and a dispatch only calls
\* callbacks that are in the registry, so a removed handler is not called.
Registered(ls, k, cb) == k \in DOMAIN ls /\ \E i \in 1..Len(ls[k]) : ls[k][i] = cb

C14_OffStep ==
  (Len(effects') = 1 /\ effects'[1].op = "off") =>
    LET k == effects'[1].event
        h == effects'[1].callback
    IN IF Registered(listeners, k, h)
       THEN /\ ~Registered(listeners', k, h)
            /\ listeners'[k] = SelectSeq(listeners[k], LAMBDA cb : cb # h)
            /\ \A j \in Kinds \ {k} : listeners'[j] = listeners[j]
       ELSE listeners' = listeners

C14_CallsRegistered ==
  \A i \in 1..Len(effects') :
    effects'[i].op = "notify" =>
      \A j \in 1..Len(effects'[i].calls) :
        Registered(listeners, effects'[i].event, effects'[i].calls[j].call)

C14_OffRemoves == [][C14_OffStep /\ C14_CallsRegistered]_vars

\* extA was registered for new_incident only; off has just removed it, and the
\* repository's callbacks stay in their order.
C14_Witness ==
  /\ nExt = 2
  /\ effects = <<[op |-> "off", event |-> "new_incident", callback |-> "extA"]>>
  /\ listeners["new_incident"] = <<"alerts_ni", "app_ni">>
  /\ listeners["connection_change"] = <<>>

\* C15: when a pull fails, by a network error or by an error response whose
\* body lacks the expected field, the view of its domain (alerts list, heat-map
\* points, incident markers, stats counters) stays as it was before the pull.
ExpectedField(d) ==
  CASE d = "alerts" -> "alerts"
    [] d = "heatmap" -> "heatmap"
    [] d = "incidents" -> "incidents"
    [] d = "stats" -> "active_alerts"
    [] d = "cameras" -> "cameras"

PullFailed(e) ==
  /\ e.op = "response"
  /\ ~e.resp.ok \/ ~Has(e.resp.body, ExpectedField(e.dom))

C15_Step ==
  \A i \in 1..Len(effects') :
    PullFailed(effects'[i]) =>
      CASE effects'[i].dom = "alerts" -> alerts' = alerts
        [] effects'[i].dom = "heatmap" -> heatPoints' = heatPoints
        [] effects'[i].dom = "incidents" -> markers' = markers
        [] effects'[i].dom = "stats" -> dom' = dom
        [] OTHER -> TRUE

C15_FailedPullKeepsView == [][C15_Step]_vars

\* C16: a run of refreshAll issues its four pulls whatever happens to any of
\* them; each successful response is applied to its view also when other pulls
\* of the run failed; the run never raises, and it is complete exactly when
\* every one of its pulls has been answered or has failed.
RefreshDomains == {"heatmap", "incidents", "stats", "alerts"}

C16_Completes ==
  \A r \in 1..Len(refreshes) :
    /\ refreshes[r].state # "raised"
    /\ refreshes[r].state = "done" <=> ~\E p \in pulls : p.ref = r

C16_IssueStep ==
  Len(refreshes') > Len(refreshes) =>
    \A d \in RefreshDomains :
      \E p \in pulls' \ pulls : p.dom = d /\ p.ref = Len(refreshes')

C16_ApplyStep ==
  \A i \in 1..Len(effects') :
    (effects'[i].op = "response" /\ effects'[i].resp.ok) =>
      LET body == effects'[i].resp.body
      IN CASE effects'[i].dom = "alerts" -> alerts' = body.alerts
           [] effects'[i].dom = "heatmap" ->
                heatPoints' = [j \in 1..Len(body.heatmap) |-> Normalise(body.heatmap[j])]
           [] effects'[i].dom = "incidents" -> markers' = body.incidents
           [] effects'[i].dom = "stats" ->
                /\ dom'.cameras_online = body.cameras_active
                /\ dom'.incidents_today = body.incidents_today
           [] OTHER -> TRUE

C16_RefreshIndependent == []C16_Completes /\ [][C16_IssueStep /\ C16_ApplyStep]_vars

\* A run of refreshAll is complete: its heat-map and stats pulls failed, its
\* alerts and incidents pulls were applied.
C16_Witness ==
  /\ Len(refreshes) = 1
  /\ refreshes[1].state = "done"
  /\ refreshes[1].failed = {"heatmap", "stats"}
  /\ applied["alerts"] = 2 /\ alerts = <<Alert(2), Alert(1)>>
  /\ applied["incidents"] = 2 /\ markers = <<Incident(1), Incident(2)>>
  /\ applied["heatmap"] = 1 /\ applied["stats"] = 1

\* C17: every stats delivery (a stats_update push that reaches the controller's
\* callback, or a stats pull result) overwrites the whole displayed record:
\* afterwards every counter shows the delivered value, and a counter whose
\* field the delivery omits shows nothing rather than an earlier value.
StatsDelivery(fx) ==
  /\ Len(fx) = 1
  /\ \/ fx[1].op = "response" /\ fx[1].dom = "stats" /\ ~PullFailed(fx[1])
     \/ /\ IsDispatch(fx[1], "stats_update")
        /\ \E j \in 1..Len(fx[1].calls) :
             fx[1].calls[j].call = "app_st" /\ ~fx[1].calls[j].threw

Delivered(fx) == IF fx[1].op = "response" THEN fx[1].resp.body ELSE fx[1].data

Shows(d, el, data, f) == d[el] = IF Has(data, f) THEN data[f] ELSE Placeholder

C17_Step ==
  StatsDelivery(effects') =>
    /\ Shows(dom', "active_alerts", Delivered(effects'), "active_alerts")
    /\ Shows(dom', "cameras_online", Delivered(effects'), "cameras_active")
    /\ Shows(dom', "incidents_today", Delivered(effects'), "incidents_today")

C17_WholeRecord == [][C17_Step]_vars

\* C18: in every state that shows a stats record, the counters and the series
\* of the charts all show one and the same record: none of them shows a value
\* of another delivery or of another domain's update.
Displayed ==
  {dom.active_alerts, dom.cameras_online, dom.incidents_today}
    \cup (IF charts.made THEN {charts.type, charts.severity, charts.trend} ELSE {})

StatsValues == {StatsRecord(k).active_alerts : k \in 1..3} \cup {14}

C18_SingleDelivery ==
  (Displayed \cap StatsValues # {}) => Cardinality(Displayed) = 1

\* C19: a new_incident push carrying an alert, or a heatmap_update push
\* carrying points, that is delivered while a pull of the same domain is in
\* flight is applied in the task that delivers it: the alert heads the list, the
\* points are the heat map's points, and the pull is still in flight afterwards.
InFlight(ps, d) == \E p \in ps : p.dom = d

C19_Step ==
  (FrameDelivered(effects') /\ ~IsUndefined(effects'[1].data)) =>
    LET data == effects'[1].data
    IN /\ (/\ effects'[1].event = "heatmap_update"
            /\ Has(data, "heatmap")
            /\ InFlight(pulls, "heatmap")) =>
              /\ heatPoints' = [j \in 1..Len(data.heatmap) |-> Normalise(data.heatmap[j])]
              /\ InFlight(pulls', "heatmap")
       /\ (/\ effects'[1].event = "new_incident"
            /\ Has(data, "alert")
            /\ InFlight(pulls, "alerts")) =>
              /\ alerts' # <<>> /\ alerts'[1] = data.alert
              /\ InFlight(pulls', "alerts")

C19_PushNotDeferred == [][C19_Step]_vars

\* C20: when a successful alerts pull response is applied, the alerts list
\* becomes exactly the snapshot's alerts (empty when the response has no alerts
\* field): nothing of the list before, pulled or pushed, stays unless the
\* snapshot holds it.
C20_Step ==
  \A i \in 1..Len(effects') :
    (effects'[i].op = "response" /\ effects'[i].dom = "alerts" /\ effects'[i].resp.ok) =>
      alerts' = IF Has(effects'[i].resp.body, "alerts")
                THEN effects'[i].resp.body.alerts ELSE <<>>

C20_SnapshotReplaces == [][C20_Step]_vars

\* The list held the pushed alerts #2 and #1 when the first pull's snapshot
\* [#1] was applied: #2 is gone.
C20_Witness ==
  /\ Len(effects) = 1
  /\ effects[1].op = "response" /\ effects[1].dom = "alerts"
  /\ effects[1].resp = Body([alerts |-> <<Alert(1)>>])
  /\ effects[1].had = <<Alert(2), Alert(1)>>
  /\ applied["alerts"] = 1
  /\ alerts = <<Alert(1)>>

\* C21: after a heat-map delivery that reaches the map (a pull result with a
\* heatmap array, or a heatmap_update push with one that the controller's
\* callback receives) the heat map's points are exactly the delivered points,
\* a point without intensity taking the default: no point is altered and none
\* of the previous points stays.
HeatDelivery(fx) ==
  /\ Len(fx) = 1
  /\ \/ /\ fx[1].op = "response" /\ fx[1].dom = "heatmap"
        /\ fx[1].resp.ok /\ Has(fx[1].resp.body, "heatmap")
     \/ /\ IsDispatch(fx[1], "heatmap_update")
        /\ ~IsUndefined(fx[1].data) /\ Has(fx[1].data, "heatmap")
        /\ \E j \in 1..Len(fx[1].calls) : fx[1].calls[j].call = "app_hm"

HeatDelivered(fx) ==
  IF fx[1].op = "response" THEN fx[1].resp.body.heatmap ELSE fx[1].data.heatmap

WithDefault(point) ==
  IF Has(point, "intensity") THEN point
  ELSE [lat |-> point.lat, lng |-> point.lng, intensity |-> DefaultIntensity]

C21_Step ==
  HeatDelivery(effects') =>
    heatPoints' = [j \in 1..Len(HeatDelivered(effects')) |->
                     WithDefault(HeatDelivered(effects')[j])]

C21_HeatmapReplaced == [][C21_Step]_vars

\* C22: every refresh, started by a timer tick, by the refresh button or by a
\* change of the selector, issues exactly one pull for each of heat map,
\* incidents, stats and alerts and no other, all within the task that starts
\* it, so before any of them completes.
RefreshStarted(fx) == Len(fx) = 1 /\ fx[1].op = "refresh"

C22_Step ==
  RefreshStarted(effects') =>
    LET new == pulls' \ pulls
    IN /\ pulls \subseteq pulls'
       /\ \A d \in RefreshDomains : Cardinality({p \in new : p.dom = d}) = 1
       /\ \A p \in new : p.dom \in RefreshDomains

C22_RefreshIssuesFour == [][C22_Step]_vars

\* A change of the selector has just refreshed: its four pulls are in flight.
C22_Witness ==
  /\ RefreshStarted(effects)
  /\ effects[1].by = "change"
  /\ \A d \in RefreshDomains :
       \E p \in pulls : p.dom = d /\ p.ref = Len(refreshes)

\* C23: a refresh issues its heat-map pull and its incidents pull with the
\* window the selector shows: the refresh a change to w starts uses w, and so
\* does every later refresh by tick or button, which leave the selector alone.
C23_Step ==
  /\ RefreshStarted(effects') =>
       /\ \A p \in pulls' \ pulls :
            p.dom \in {"heatmap", "incidents"} => p.hours = hours'
       /\ effects'[1].by # "change" => hours' = hours
  /\ hours' # hours =>
       \/ effects' = <<>>
       \/ RefreshStarted(effects') /\ effects'[1].by = "change"

C23_WindowUsed == [][C23_Step]_vars

\* After a change to 6 a timer tick has just refreshed with window 6, while
\* an earlier refresh's heat-map pull for 6 is still in flight.
C23_Witness ==
  /\ RefreshStarted(effects)
  /\ effects[1].by = "tick"
  /\ hours = 6
  /\ \E p, q \in pulls :
       /\ p.dom = "heatmap" /\ q.dom = "heatmap"
       /\ p.hours = 6 /\ q.hours = 6
       /\ p.ref = Len(refreshes) /\ q.ref = Len(refreshes) - 1 /\ q.ref > 0

\* C24: an alert_update push leaves the alerts list as it is and issues exactly
\* one alerts pull (whatever its payload); the list changes only in a task
\* that prepends a pushed alert or applies an alerts pull response.
C24_PushStep ==
  (Len(effects') = 1 /\ IsDispatch(effects'[1], "alert_update")) =>
    /\ alerts' = alerts
    /\ pulls \subseteq pulls'
    /\ Cardinality(pulls' \ pulls) = 1
    /\ \A p \in pulls' \ pulls : p.dom = "alerts"

C24_ChangeStep ==
  alerts' # alerts =>
    /\ Len(effects') = 1
    /\ \/ effects'[1].op = "response" /\ effects'[1].dom = "alerts"
       \/ PushedAlert(effects')

C24_AlertUpdatePulls == [][C24_PushStep /\ C24_ChangeStep]_vars

\* An alert_update push has just been delivered to a list of two alerts: the
\* list is as before and the pull it issued is in flight.
C24_Witness ==
  /\ Len(effects) = 1
  /\ IsDispatch(effects[1], "alert_update")
  /\ CallsOf(effects[1]) = <<"alerts_au">>
  /\ alerts = <<Alert(2), Alert(1)>>
  /\ applied["alerts"] = 1
  /\ \E p \in pulls : p.dom = "alerts" /\ p.seq = 2

\* C27: a new_incident push that carries no alert (or no payload at all)
\* leaves the alerts list as it is.
C27_Step ==
  (/\ Len(effects') = 1
   /\ IsDispatch(effects'[1], "new_incident")
   /\ IsUndefined(effects'[1].data) \/ ~Has(effects'[1].data, "alert")) =>
    alerts' = alerts

C27_NoAlertNoChange == [][C27_Step]_vars

\* A new_incident without alert has just been delivered to the alert panel's
\* callback while the list held two alerts.
C27_Witness ==
  /\ Len(effects) = 1
  /\ IsDispatch(effects[1], "new_incident")
  /\ effects[1].data = [incident |-> Incident(nPush)]
  /\ \E j \in 1..Len(effects[1].calls) :
       effects[1].calls[j].call = "alerts_ni" /\ ~effects[1].calls[j].threw
  /\ alerts = <<Alert(2), Alert(1)>>

\* C25: the camera roster is pulled once, by initDashboard: no push, refresh or
\* search issues a camera pull; the roster changes only when that pull's
\* response is applied; a search changes the list shown, to the roster's
\* matching cameras, and leaves the roster as it is.
C25_PulledOnce ==
  issued["cameras"] = IF \E i \in 1..Len(inits) : inits[i] # "delay" THEN 1 ELSE 0

C25_Step ==
  /\ cameras' # cameras =>
       Len(effects') = 1 /\ effects'[1].op = "response" /\ effects'[1].dom = "cameras"
  /\ (Len(effects') = 1 /\ effects'[1].op = "filter") =>
       /\ cameras' = cameras
       /\ \A i \in 1..Len(filteredCameras') :
            \E j \in 1..Len(cameras) : filteredCameras'[i] = cameras[j]
       /\ effects'[1].query.text = "" => filteredCameras' = cameras

C25_RosterPulledOnce == []C25_PulledOnce /\ [][C25_Step]_vars

\* After pushes and a refresh, a search has just narrowed the list shown to
\* one camera of the roster of two.
C25_Witness ==
  /\ Len(effects) = 1 /\ effects[1].op = "filter"
  /\ nPush = MaxPush
  /\ Len(refreshes) = 1
  /\ cameras = <<1, 2>>
  /\ filteredCameras = <<1>>

\* C26: every heatmap_update, stats_update and new_incident frame delivered on
\* a connected transport is applied to its consumer: the heat map shows the
\* frame's points, the counters the frame's values, the marker layer the
\* frame's incident, also while initDashboard still awaits its pulls.
C26_Step ==
  (FrameDelivered(effects') /\ ~IsUndefined(effects'[1].data)) =>
    LET data == effects'[1].data
        kind == effects'[1].event
    IN /\ (kind = "heatmap_update" /\ Has(data, "heatmap")) =>
            heatPoints' = [j \in 1..Len(data.heatmap) |-> Normalise(data.heatmap[j])]
       /\ (kind = "stats_update" /\ Has(data, "active_alerts")) =>
            dom'.active_alerts = data.active_alerts
       /\ (kind = "stats_update" /\ Has(data, "cameras_active")) =>
            dom'.cameras_online = data.cameras_active
       /\ (kind = "new_incident" /\ Has(data, "incident")) =>
            markers' = <<data.incident>>

C26_PushAlwaysApplied == [][C26_Step]_vars

\* C28: a delivered heat-map point that carries an intensity, intensity 0
\* included, keeps exactly that intensity in the heat layer; only a point
\* without the field gets the default.
C28_Step ==
  HeatDelivery(effects') =>
    \A j \in 1..Len(HeatDelivered(effects')) :
      Has(HeatDelivered(effects')[j], "intensity") =>
        /\ j <= Len(heatPoints')
        /\ heatPoints'[j].intensity = HeatDelivered(effects')[j].intensity

C28_IntensityKept == [][C28_Step]_vars

\* C29: whatever the order and number of the two triggers, initDashboard is
\* started at most once, so at most one socket is opened, at most one refresh
\* interval is installed, and each of the dashboard's push callbacks is
\* registered at most once.
DashboardCallbacks ==
  {<<"new_incident", "alerts_ni">>, <<"alert_update", "alerts_au">>,
   <<"heatmap_update", "app_hm">>, <<"stats_update", "app_st">>,
   <<"new_incident", "app_ni">>}

TimesRegistered(event, callback) ==
  Cardinality({i \in 1..Len(listeners[event]) : listeners[event][i] = callback})

C29_InitOnce ==
  /\ Len(inits) <= 1
  /\ Len(sockets) <= 1
  /\ timers <= 1
  /\ \A r \in DashboardCallbacks : TimesRegistered(r[1], r[2]) <= 1

\* Witness: the dashboard was initialised by a click and has run to its end
\* (one socket, one interval, every callback registered once) when the
\* observer reports the section in view and is ignored.
C29_Witness ==
  /\ Len(effects) = 1 /\ effects[1].op = "trigger" /\ effects[1].by = "scroll"
  /\ inits = <<"done">>
  /\ Len(sockets) = 1
  /\ timers = 1
  /\ \A r \in DashboardCallbacks : TimesRegistered(r[1], r[2]) = 1

\* C30: a dispatch calls exactly the callbacks registered for its kind when
\* it started, in order: a callback that an earlier callback removed with off
\* is still called, one added with on during the dispatch is not; the registry
\* after the dispatch holds every change the callbacks made, so the changes
\* take effect from the next dispatch on.
RECURSIVE RegistryAfter(_, _, _)
RegistryAfter(ls, calls, i) ==
  IF i > Len(calls) THEN ls
  ELSE RegistryAfter(
         CASE calls[i].call = "extOff" ->
                [ls EXCEPT !["new_incident"] = SelectSeq(@, LAMBDA cb : cb # "extB")]
           [] calls[i].call = "extOn" ->
                [ls EXCEPT !["new_incident"] = Append(@, "extB")]
           [] OTHER -> ls,
         calls, i + 1)

C30_Step ==
  \A i \in 1..Len(effects') :
    effects'[i].op = "notify" =>
      /\ CallsOf(effects'[i]) = listeners[effects'[i].event]
      /\ listeners' = RegistryAfter(listeners, effects'[i].calls, 1)

C30_DispatchUsesSnapshot == [][C30_Step]_vars

\* Witness: a dispatch of new_incident that started with extOff, extOn and extB
\* registered (extB added by extOn in the dispatch before, where it was not
\* called): extOff removed extB, extB was called nevertheless, extOn added
\* extB again and that registration was not called.
C30_Witness ==
  /\ Len(effects) = 1
  /\ IsDispatch(effects[1], "new_incident")
  /\ CallsOf(effects[1]) = <<"extOff", "extOn", "extB">>
  /\ listeners["new_incident"] = <<"extOff", "extOn", "extB">>
  /\ nExt = 2

\* C31: a new_incident frame carrying an incident leaves the marker layer with
\* exactly that incident, whatever the preceding incidents pull or earlier
\* frames had placed; the markers change at no other time than on such a
\* frame or when an incidents pull is applied.
IncidentPushed(fx) ==
  /\ FrameDelivered(fx)
  /\ fx[1].event = "new_incident"
  /\ ~IsUndefined(fx[1].data)
  /\ Has(fx[1].data, "incident")

IncidentsApplied(fx) ==
  /\ Len(fx) = 1
  /\ fx[1].op = "response" /\ fx[1].dom = "incidents" /\ fx[1].resp.ok

C31_Step ==
  /\ IncidentPushed(effects') => markers' = <<effects'[1].data.incident>>
  /\ markers' # markers => (IncidentPushed(effects') \/ IncidentsApplied(effects'))

C31_PushReplacesMarkers == [][C31_Step]_vars

====
